---- MODULE Spec2Model ----
(***************************************************************************)
(* A model of the Drivechain client of bitcoin-jsonrpsee (src/src/lib.rs). *)
(* One client call runs at a time: the handle is stateless, so calls do    *)
(* not interact.  Every await of the code is a program location (pc); the  *)
(* endpoint's answer and the code that runs up to the next await are one   *)
(* action.                                                                 *)
(***************************************************************************)
EXTENDS Integers, Sequences, FiniteSets, TLC

\* ---------------------------------------------------------------- bounds
\* Number of distinct mainchain block hashes.
NumBlocks == 2
\* Largest burn-output value (satoshi) a transaction carries.
MaxAmount == 3
\* Longest deposit list the endpoint returns.
MaxDeposits == 3
\* Longest spent / failed withdrawal list the endpoint returns.
MaxWithdrawals == 2
\* Longest poll interval, in timer ticks.
MaxPollInterval == 1
\* Number of chained scans a caller makes.
MaxScans == 3
\* Longest deposit list of unchecked candidates the endpoint returns.
MaxRawDeposits == 2

\* ------------------------------------------------------- program constants
\* JsonrpseeErrorCode::ServerError(-1)
SERVER_ERROR_CODE == -1
\* Amount::ZERO
AMOUNT_ZERO == 0

BMM_NOT_FOUND_MESSAGE == "h* not found in block"

\* ----------------------------------------------------------------- values
\* Option<T>
None == <<>>
Some(x) == <<x>>
IsSome(o) == o # <<>>
Unwrap(o) == o[1]
Option(S) == {None} \cup {Some(x) : x \in S}

\* Result<T, E>
Ok(v) == [tag |-> "Ok", val |-> v]
Err(e) == [tag |-> "Err", val |-> e]

\* bitcoin::BlockHash values, opaque
Blocks == 1..NumBlocks
\* h* commitments (bmm_bytes)
Commitments == {"h1", "h2"}

\* jsonrpsee::core::Error as the client sees it: an application error
\* (Call) with a code and a message, or a transport failure.
CallError(c, m) == [kind |-> "Call", code |-> c, message |-> m]
TransportError == [kind |-> "Transport", code |-> 0, message |-> ""]
\* A successful response (its body is given apart).
RpcOk == [kind |-> "Ok", code |-> 0, message |-> ""]
ErrorCodes == {SERVER_ERROR_CODE, -5, -32603}
ErrorMessages == {BMM_NOT_FOUND_MESSAGE, "Block not found", "h* not found in block."}
RpcErrors ==
    {TransportError} \cup {CallError(c, m) : c \in ErrorCodes, m \in ErrorMessages}

\* jsonrpsee::types::error::ErrorCode::from(i32): the reserved JSON-RPC codes
\* become their own variants, every other code is ServerError(code).
ErrorCodeFrom(code) ==
    CASE code = -32700 -> <<"ParseError", 0>>
      [] code = -32600 -> <<"InvalidRequest", 0>>
      [] code = -32601 -> <<"MethodNotFound", 0>>
      [] code = -32602 -> <<"InvalidParams", 0>>
      [] code = -32603 -> <<"InternalError", 0>>
      [] OTHER -> <<"ServerError", code>>
ServerError(code) == <<"ServerError", code>>

\* Error::Jsonrpsee { source, main_addr }
Jsonrpsee(source) == [variant |-> "Jsonrpsee", source |-> source]
\* Error::Hex, Error::BitcoinConsensusEncode (made by `?` through #[from])
HexError == [variant |-> "Hex", source |-> TransportError]
ConsensusDecodeError == [variant |-> "BitcoinConsensusEncode", source |-> TransportError]

\* The sidechain this handle is configured for (Drivechain::sidechain_number).
sidechain_number == 1
SidechainIds == {1, 2}

\* Satoshi amounts.
Amounts == 0..MaxAmount

\* Deposit::txhex.  A hex string is modelled by what decoding makes of it:
\* "badhex" is no hex string, "badtx" is hex of bytes that are no
\* transaction, "tx" is the hex of a transaction with the outputs `output`
\* (the values of its outputs, in order).
TxHex(enc, output) == [enc |-> enc, output |-> output]
TxHexes ==
    {TxHex("badhex", <<>>), TxHex("badtx", <<>>)}
        \cup {TxHex("tx", <<v>>) : v \in Amounts}

\* hex::decode(&deposit.txhex)
HexDecode(txhex) ==
    IF txhex.enc = "badhex" THEN Err(HexError) ELSE Ok(txhex)

\* bitcoin::Transaction::consensus_decode(bytes)
ConsensusDecode(bytes) ==
    IF bytes.enc = "badtx"
    THEN Err(ConsensusDecodeError)
    ELSE Ok([output |-> bytes.output])

\* transaction.txid(): a hash of the transaction, one per transaction.
Txid(transaction) == <<"txid", transaction.output>>

\* client::Deposit { hashblock, nburnindex, ntx, txhex } (strdest is copied
\* to the output's address unread and is left out).
BurnIndexes == {0, 1}
Deposit(hashblock, nburnindex, ntx, txhex) ==
    [hashblock |-> hashblock, nburnindex |-> nburnindex, ntx |-> ntx, txhex |-> txhex]

\* All sequences over S of length at most n.
SeqUpTo(S, n) == UNION {[1..k -> S] : k \in 0..n}

\* ntx: the endpoint numbers the candidates of one block in the order listed.
Numbered(l) ==
    [i \in 1..Len(l) |->
        Deposit(l[i][1], l[i][2],
                Cardinality({j \in 1..(i - 1) : l[j][1] = l[i][1]}), l[i][3])]

\* Candidates (block, burn index, txhex) that decode and whose burn index
\* is an output of the transaction, and all candidates.
WellFormed == {c \in Blocks \X BurnIndexes \X TxHexes : c[3].enc = "tx" /\ c[2] < Len(c[3].output)}
Candidates == Blocks \X BurnIndexes \X TxHexes

\* The deposit lists of length at most n the endpoint may answer with: any
\* candidates in any order.  The scan ends at the first candidate that is
\* not well formed and never reads what follows it, so the lists are cut
\* after such a candidate.
DepositListsUpTo(n) ==
    IF n = 0
    THEN {<<>>}
    ELSE {Numbered(l \o t) :
            l \in SeqUpTo(WellFormed, n - 1),
            t \in {<<>>} \cup {<<c>> : c \in Candidates}}
DepositLists == DepositListsUpTo(MaxDeposits)

\* client::SpentWithdrawal { nsidechain, hash } (hashblock is not read),
\* client::FailedWithdrawal { nsidechain, hash }
Txids == {"A", "B", "C"}
Withdrawal(nsidechain, hash) == [nsidechain |-> nsidechain, hash |-> hash]
Withdrawals == {Withdrawal(n, h) : n \in SidechainIds, h \in Txids}
WithdrawalLists == SeqUpTo(Withdrawals, MaxWithdrawals)

\* DepositInfo { block_hash, tx_index, outpoint, output }
DepositInfo(block_hash, tx_index, txid, vout, value) ==
    [block_hash |-> block_hash, tx_index |-> tx_index,
     outpoint |-> [txid |-> txid, vout |-> vout], value |-> value]

\* TwoWayPegData { deposits, deposit_block_hash, bundle_statuses }
TwoWayPegData(deposits, deposit_block_hash, bundle_statuses) ==
    [deposits |-> deposits, deposit_block_hash |-> deposit_block_hash,
     bundle_statuses |-> bundle_statuses]

\* ------------------------------------------------------------------ state
VARIABLES
    pc,            \* program location of the running call
    call,          \* the running call: operation and arguments
    net,           \* the request in flight, None when there is none
    ret,           \* the call's return value, None while it runs
    main_hash,     \* verify_bmm_next_block: the loop's result
    timer,         \* ticks left of tokio::time::sleep
    successor,     \* endpoint: the block after prev_main_hash, if mined
    verify_sent,   \* history: block hashes verifybmm was requested for
    polled_next,   \* history: nextblockhash values the polls reported
    last_outcome,  \* history: the last RPC outcome the call received
    deposits,      \* get_deposit_outputs: the endpoint's deposit list
    idx,           \* get_deposit_outputs: position of the for loop
    last_total,    \* get_deposit_outputs: let mut last_total
    last_block_hash, \* get_deposit_outputs: let mut last_block_hash
    deposit_infos, \* get_deposit_outputs: let mut deposit_infos
    peg_deposits,  \* get_two_way_peg_data: (deposits, deposit_block_hash)
    spent_withdrawals,  \* get_withdrawal_bundle_statuses: the spent list
    failed_withdrawals, \* get_withdrawal_bundle_statuses: the failed list
    statuses,      \* get_withdrawal_bundle_statuses: let mut statuses
    chain,         \* endpoint: the deposit candidates of the mainchain
    scans          \* caller: the log of its chained scans

bmm_vars == <<main_hash, timer, successor, verify_sent, polled_next>>
scan_vars == <<deposits, idx, last_total, last_block_hash, deposit_infos>>
wd_vars == <<peg_deposits, spent_withdrawals, failed_withdrawals, statuses>>
chain_vars == <<chain, scans>>
vars == <<pc, call, net, ret, last_outcome, bmm_vars, scan_vars, wd_vars, chain_vars>>

NoCall == [op |-> "none"]

Request(method, params) == [method |-> method, params |-> params]

Init ==
    /\ pc = "idle"
    /\ call = NoCall
    /\ net = None
    /\ ret = None
    /\ main_hash = None
    /\ timer = 0
    /\ successor = None
    /\ verify_sent = <<>>
    /\ polled_next = {}
    /\ last_outcome = None
    /\ deposits = <<>>
    /\ idx = 0
    /\ last_total = AMOUNT_ZERO
    /\ last_block_hash = None
    /\ deposit_infos = <<>>
    /\ peg_deposits = None
    /\ spent_withdrawals = <<>>
    /\ failed_withdrawals = <<>>
    /\ statuses = <<>>
    /\ chain = <<>>
    /\ scans = <<>>

\* ------------------------------------------------------------- verify_bmm
\* Mutant: the sentinel is not told apart, every error is propagated.
VerifyBmmMatch_NoSentinel(outcome) ==
    IF outcome.kind = "Ok" THEN Ok(TRUE) ELSE Err(Jsonrpsee(outcome))

\* Mutant: the sentinel is recognised by its message alone.
VerifyBmmMatch_AnyCode(outcome) ==
    IF outcome.kind = "Ok"
    THEN Ok(TRUE)
    ELSE IF outcome.kind = "Call" /\ outcome.message = BMM_NOT_FOUND_MESSAGE
         THEN Ok(FALSE)
         ELSE Err(Jsonrpsee(outcome))

\* The match of verify_bmm on the verifybmm outcome.
VerifyBmmMatch(outcome) ==
    IF outcome.kind = "Ok"
    THEN Ok(TRUE)
    ELSE IF /\ outcome.kind = "Call"
            /\ ErrorCodeFrom(outcome.code) = ServerError(SERVER_ERROR_CODE)
            /\ outcome.message = BMM_NOT_FOUND_MESSAGE
         THEN Ok(FALSE)
         ELSE Err(Jsonrpsee(outcome))

\* self.client.verifybmm(main_hash, bmm_bytes, self.sidechain_number)
SendVerifyBmm(h, bmm) ==
    /\ net' = Some(Request("verifybmm", <<h, bmm>>))
    /\ verify_sent' = Append(verify_sent, h)

\* A caller invokes verify_bmm(main_hash, bmm_bytes).
CallVerifyBmm ==
    /\ pc = "idle"
    /\ \E h \in Blocks, bmm \in Commitments :
         /\ call' = [op |-> "verify_bmm", main_hash |-> h, bmm_bytes |-> bmm]
         /\ SendVerifyBmm(h, bmm)
    /\ pc' = "verify_bmm_await"
    /\ UNCHANGED <<ret, last_outcome, main_hash, timer, successor, polled_next>>
    /\ UNCHANGED <<scan_vars, wd_vars, chain_vars>>

RpcOutcomes == {RpcOk} \cup RpcErrors

\* The verifybmm answer arrives; verify_bmm returns.
VerifyBmmResponse ==
    /\ pc = "verify_bmm_await"
    /\ \E outcome \in RpcOutcomes :
         /\ last_outcome' = Some(outcome)
         /\ ret' = Some(VerifyBmmMatch(outcome))
    /\ net' = None
    /\ pc' = "done"
    /\ UNCHANGED <<call, bmm_vars, scan_vars, wd_vars, chain_vars>>

\* -------------------------------------------------- get_block_commitments
BLOCK_NOT_FOUND_MESSAGE == "Block not found"

\* client::BlockCommitments: pairs of a txout index and a commitment.
BlockCommitmentLists == SeqUpTo({0, 1} \X Commitments, 2)

\* A successful getblockcommitments response with its body.
RpcOkWith(body) == [kind |-> "Ok", code |-> 0, message |-> "", body |-> body]

\* BlockNotFoundError(pub bitcoin::BlockHash)
BlockNotFoundError(hash) == [variant |-> "BlockNotFound", hash |-> hash]

\* Mutant: the message of verify_bmm's sentinel is tested for.
BlockCommitmentsMatch_BmmMessage(outcome, hash) ==
    IF outcome.kind = "Ok"
    THEN Ok(Ok(outcome.body))
    ELSE IF /\ outcome.kind = "Call"
            /\ ErrorCodeFrom(outcome.code) = ServerError(SERVER_ERROR_CODE)
            /\ outcome.message = BMM_NOT_FOUND_MESSAGE
         THEN Ok(Err(BlockNotFoundError(hash)))
         ELSE Err(Jsonrpsee(outcome))

\* The match of get_block_commitments on the getblockcommitments outcome.
BlockCommitmentsMatch(outcome, hash) ==
    IF outcome.kind = "Ok"
    THEN Ok(Ok(outcome.body))
    ELSE IF /\ outcome.kind = "Call"
            /\ ErrorCodeFrom(outcome.code) = ServerError(SERVER_ERROR_CODE)
            /\ outcome.message = BLOCK_NOT_FOUND_MESSAGE
         THEN Ok(Err(BlockNotFoundError(hash)))
         ELSE Err(Jsonrpsee(outcome))

\* A caller invokes get_block_commitments(main_hash).
CallGetBlockCommitments ==
    /\ pc = "idle"
    /\ \E h \in Blocks :
         /\ call' = [op |-> "get_block_commitments", main_hash |-> h]
         /\ net' = Some(Request("getblockcommitments", <<h>>))
    /\ pc' = "commitments_await"
    /\ UNCHANGED <<ret, last_outcome, bmm_vars, scan_vars, wd_vars, chain_vars>>

\* The getblockcommitments answer arrives; get_block_commitments returns.
BlockCommitmentsResponse ==
    /\ pc = "commitments_await"
    /\ \E outcome \in RpcErrors \cup {RpcOkWith(b) : b \in BlockCommitmentLists} :
         /\ last_outcome' = Some(outcome)
         /\ ret' = Some(BlockCommitmentsMatch(outcome, call.main_hash))
    /\ net' = None
    /\ pc' = "done"
    /\ UNCHANGED <<call, bmm_vars, scan_vars, wd_vars, chain_vars>>

\* -------------------------------------------------- verify_bmm_next_block
\* self.client.getblock(prev_main_hash, None)
SendGetBlock(h) ==
    net' = Some(Request("getblock", <<h>>))

\* A caller invokes verify_bmm_next_block(prev_main_hash, bmm_bytes,
\* poll_interval); the endpoint may or may not know a successor yet.
CallVerifyBmmNextBlock ==
    /\ pc = "idle"
    /\ \E prev \in Blocks, bmm \in Commitments, interval \in 0..MaxPollInterval :
         /\ call' = [op |-> "verify_bmm_next_block", prev_main_hash |-> prev,
                     bmm_bytes |-> bmm, poll_interval |-> interval]
         /\ SendGetBlock(prev)
         /\ \E s \in Option(Blocks \ {prev}) : successor' = s
    /\ pc' = "next_block_getblock"
    /\ UNCHANGED <<ret, last_outcome, main_hash, timer, verify_sent, polled_next>>
    /\ UNCHANGED <<scan_vars, wd_vars, chain_vars>>

\* client::Block { hash, nextblockhash } (the other fields are not read)
Block(hash, nextblockhash) == [hash |-> hash, nextblockhash |-> nextblockhash]

\* Mutant: the polled block's own hash is taken for its successor.
PolledNext_OwnHash(block) == Some(block.hash)

\* `if let Some(next_block_hash) = self.client.getblock(..).await?.nextblockhash`
PolledNext(block) == block.nextblockhash

\* Mutant: the check is made against prev_main_hash.
VerifyArg_Prev(prev_main_hash_, main_hash_) == prev_main_hash_

\* `self.verify_bmm(main_hash, bmm_bytes)`: the block the check is made against.
VerifyArg(prev_main_hash_, main_hash_) == main_hash_

\* The mainchain mines the block that follows prev_main_hash.
MineBlock ==
    /\ pc \in {"next_block_getblock", "next_block_sleep"}
    /\ successor = None
    /\ \E h \in Blocks \ {call.prev_main_hash} : successor' = Some(h)
    /\ UNCHANGED <<pc, call, net, ret, last_outcome, main_hash, timer,
                   verify_sent, polled_next, scan_vars, wd_vars, chain_vars>>

\* Mutant: a failed poll is retried after the sleep.
GetBlockResponse_RetryOnError ==
    /\ pc = "next_block_getblock"
    /\ \E outcome \in RpcOutcomes :
         /\ last_outcome' = Some(outcome)
         /\ IF outcome.kind # "Ok"
            THEN /\ timer' = call.poll_interval
                 /\ net' = None
                 /\ pc' = "next_block_sleep"
                 /\ UNCHANGED <<ret, main_hash, successor, verify_sent, polled_next>>
            ELSE LET block == Block(call.prev_main_hash, successor)
                     next_block_hash == PolledNext(block)
                 IN
                 /\ polled_next' = polled_next \cup {block.nextblockhash}
                 /\ IF IsSome(next_block_hash)
                    THEN /\ main_hash' = next_block_hash
                         /\ SendVerifyBmm(VerifyArg(call.prev_main_hash,
                                                   Unwrap(next_block_hash)),
                                          call.bmm_bytes)
                         /\ pc' = "next_block_verify"
                         /\ UNCHANGED <<ret, timer, successor>>
                    ELSE /\ timer' = call.poll_interval
                         /\ net' = None
                         /\ pc' = "next_block_sleep"
                         /\ UNCHANGED <<ret, main_hash, successor, verify_sent>>
    /\ UNCHANGED <<call, scan_vars, wd_vars, chain_vars>>

\* The getblock answer arrives: an error ends the call (the `?`), a block
\* with nextblockhash breaks the loop and verify_bmm is entered, a block
\* without it starts the sleep.
GetBlockResponse ==
    /\ pc = "next_block_getblock"
    /\ \E outcome \in RpcOutcomes :
         /\ last_outcome' = Some(outcome)
         /\ IF outcome.kind # "Ok"
            THEN /\ ret' = Some(Err(Jsonrpsee(outcome)))
                 /\ net' = None
                 /\ pc' = "done"
                 /\ UNCHANGED bmm_vars
            ELSE LET block == Block(call.prev_main_hash, successor)
                     next_block_hash == PolledNext(block)
                 IN
                 /\ polled_next' = polled_next \cup {block.nextblockhash}
                 /\ IF IsSome(next_block_hash)
                    THEN /\ main_hash' = next_block_hash
                         /\ SendVerifyBmm(VerifyArg(call.prev_main_hash,
                                                   Unwrap(next_block_hash)),
                                          call.bmm_bytes)
                         /\ pc' = "next_block_verify"
                         /\ UNCHANGED <<ret, timer, successor>>
                    ELSE /\ timer' = call.poll_interval
                         /\ net' = None
                         /\ pc' = "next_block_sleep"
                         /\ UNCHANGED <<ret, main_hash, successor, verify_sent>>
    /\ UNCHANGED <<call, scan_vars, wd_vars, chain_vars>>

\* Time passes while the call sleeps.
Tick ==
    /\ pc = "next_block_sleep"
    /\ timer > 0
    /\ timer' = timer - 1
    /\ UNCHANGED <<pc, call, net, ret, last_outcome, main_hash, successor,
                   verify_sent, polled_next, scan_vars, wd_vars, chain_vars>>

\* Mutant: a sleep of zero never completes.
SleepDone_NotZero ==
    /\ pc = "next_block_sleep"
    /\ timer = 0
    /\ call.poll_interval > 0
    /\ SendGetBlock(call.prev_main_hash)
    /\ pc' = "next_block_getblock"
    /\ UNCHANGED <<call, ret, last_outcome, bmm_vars, scan_vars, wd_vars, chain_vars>>

\* tokio::time::sleep(poll_interval) completes; the loop polls again.
SleepDone ==
    /\ pc = "next_block_sleep"
    /\ timer = 0
    /\ SendGetBlock(call.prev_main_hash)
    /\ pc' = "next_block_getblock"
    /\ UNCHANGED <<call, ret, last_outcome, bmm_vars, scan_vars, wd_vars, chain_vars>>

\* The verifybmm answer arrives inside verify_bmm_next_block:
\* `let res = self.verify_bmm(main_hash, bmm_bytes).await?; Ok((res, main_hash))`
NextBlockVerifyResponse ==
    /\ pc = "next_block_verify"
    /\ \E outcome \in RpcOutcomes :
         /\ last_outcome' = Some(outcome)
         /\ LET res == VerifyBmmMatch(outcome) IN
            ret' = Some(IF res.tag = "Ok"
                        THEN Ok(<<res.val, Unwrap(main_hash)>>)
                        ELSE res)
    /\ net' = None
    /\ pc' = "done"
    /\ UNCHANGED <<call, bmm_vars, scan_vars, wd_vars, chain_vars>>

\* ---------------------------------------------------- get_deposit_outputs
\* A caller invokes get_two_way_peg_data(end, start), which enters
\* get_deposit_outputs: listsidechaindepositsbyblock(sidechain_number,
\* Some(end), start) is requested.
SendListDeposits(end, start) ==
    net' = Some(Request("listsidechaindepositsbyblock",
                        <<sidechain_number, Some(end), start>>))

\* (`end` is read by the request only; the call keeps `start`.)
EnterGetTwoWayPegData(end, start) ==
    /\ pc = "idle"
    /\ call' = [op |-> "get_two_way_peg_data", start |-> start]
    /\ SendListDeposits(end, start)
    /\ pc' = "deposits_await"
    /\ UNCHANGED <<ret, last_outcome, bmm_vars, scan_vars, wd_vars>>

CallGetTwoWayPegData ==
    /\ \E end \in Blocks, start \in Option(Blocks) :
         EnterGetTwoWayPegData(end, start)
    /\ UNCHANGED chain_vars

\* Mutant: a failed deposit-list request does not end the call; the
\* withdrawal lists are requested all the same.
ListDepositsAnswer_Continue(outcome, body) ==
    /\ pc = "deposits_await"
    /\ last_outcome' = Some(outcome)
    /\ IF outcome.kind # "Ok"
       THEN /\ net' = Some(Request("listspentwithdrawals", <<>>))
            /\ pc' = "spent_await"
            /\ UNCHANGED <<ret, scan_vars>>
       ELSE /\ net' = None
            /\ deposits' = body
            /\ idx' = 1
            /\ last_block_hash' = None
            /\ last_total' = AMOUNT_ZERO
            /\ deposit_infos' = <<>>
            /\ pc' = "deposits_scan"
            /\ UNCHANGED ret
    /\ UNCHANGED <<call, bmm_vars, wd_vars, chain_vars>>

\* The answer to listsidechaindepositsbyblock with the given body: an error
\* ends the call (the `?`), a list starts the scan with
\* last_block_hash = None, last_total = Amount::ZERO, deposit_infos = [].
ListDepositsAnswer(outcome, body) ==
    /\ pc = "deposits_await"
    /\ last_outcome' = Some(outcome)
    /\ net' = None
    /\ IF outcome.kind # "Ok"
       THEN /\ ret' = Some(Err(Jsonrpsee(outcome)))
            /\ pc' = "done"
            /\ UNCHANGED scan_vars
       ELSE /\ deposits' = body
            /\ idx' = 1
            /\ last_block_hash' = None
            /\ last_total' = AMOUNT_ZERO
            /\ deposit_infos' = <<>>
            /\ pc' = "deposits_scan"
            /\ UNCHANGED ret
    /\ UNCHANGED <<call, bmm_vars, wd_vars, chain_vars>>

\* The endpoint answers with an error or with a deposit list of `bodies`.
ListDepositsFrom(bodies) ==
    /\ pc = "deposits_await"
    /\ \E outcome \in RpcOutcomes :
        IF outcome.kind # "Ok"
        THEN ListDepositsAnswer(outcome, <<>>)
        ELSE \E body \in bodies : ListDepositsAnswer(outcome, body)

\* The endpoint answers with an error or with any deposit list.
ListDepositsResponse == ListDepositsFrom(DepositLists)

\* transaction.output[deposit.nburnindex] is an index into a Vec: it panics
\* when the index is out of range.
IndexInRange(transaction, nburnindex) == nburnindex < Len(transaction.output)
BurnValue(transaction, nburnindex) == transaction.output[nburnindex + 1]

\* Mutant: the start block is not skipped.
IsStartBlock_Never(deposit, start) == FALSE

\* Mutant: only the first transaction of the start block is skipped.
IsStartBlock_FirstTx(deposit, start) ==
    IsSome(start) /\ deposit.hashblock = Unwrap(start) /\ deposit.ntx = 0

\* `if let Some(start) = start { if deposit.hashblock == start {`
IsStartBlock(deposit, start) ==
    IsSome(start) /\ deposit.hashblock = Unwrap(start)

\* Mutant: a total equal to last_total is skipped too.
WentBackward_OrEqual(total, last) == total <= last

\* Mutant: a total that went backward is not skipped.
WentBackward_Never(total, last) == FALSE

\* `if total < last_total {`
WentBackward(total, last) == total < last

\* Mutant: the running total is taken for the deposit's value.
DepositValue_Total(total, last) == total

\* `let value = total - last_total;`
DepositValue(total, last) == total - last

\* Mutant: the watermark is set by the first emitted deposit only.
NewWatermark_First(deposit) ==
    IF IsSome(last_block_hash) THEN last_block_hash ELSE Some(deposit.hashblock)

\* `last_block_hash = Some(deposit.hashblock);`
NewWatermark(deposit) == Some(deposit.hashblock)

\* One iteration of `for deposit in &deposits`.
DepositScanStep ==
    /\ pc = "deposits_scan"
    /\ idx <= Len(deposits)
    /\ LET deposit == deposits[idx]
           hex == HexDecode(deposit.txhex)
           decoded == ConsensusDecode(hex.val)
           transaction == decoded.val
           total == BurnValue(transaction, deposit.nburnindex)
       IN  IF hex.tag = "Err" \/ decoded.tag = "Err"
           THEN \* `?`: the decode error ends get_two_way_peg_data
                /\ ret' = Some(Err(IF hex.tag = "Err" THEN hex.val ELSE decoded.val))
                /\ pc' = "done"
                /\ UNCHANGED scan_vars
           ELSE IF ~IndexInRange(transaction, deposit.nburnindex)
           THEN \* index out of bounds, in either branch
                /\ pc' = "panicked"
                /\ UNCHANGED <<ret, scan_vars>>
           ELSE IF IsStartBlock(deposit, call.start)
           THEN \* the start block is accounted for already
                /\ last_total' = total
                /\ idx' = idx + 1
                /\ UNCHANGED <<pc, ret, deposits, last_block_hash, deposit_infos>>
           ELSE IF WentBackward(total, last_total)
           THEN /\ last_total' = total
                /\ idx' = idx + 1
                /\ UNCHANGED <<pc, ret, deposits, last_block_hash, deposit_infos>>
           ELSE /\ deposit_infos' = Append(deposit_infos,
                    DepositInfo(deposit.hashblock, deposit.ntx, Txid(transaction),
                                deposit.nburnindex, DepositValue(total, last_total)))
                /\ last_total' = total
                /\ last_block_hash' = NewWatermark(deposit)
                /\ idx' = idx + 1
                /\ UNCHANGED <<pc, ret, deposits>>
    /\ UNCHANGED <<call, net, last_outcome, bmm_vars, wd_vars, chain_vars>>

\* ------------------------------------------ get_withdrawal_bundle_statuses
\* The loop is over: get_deposit_outputs returns
\* Ok((deposit_infos, last_block_hash)), its locals are dropped, and
\* get_two_way_peg_data enters get_withdrawal_bundle_statuses, which requests
\* listspentwithdrawals.
DepositsDone ==
    /\ pc = "deposits_scan"
    /\ idx > Len(deposits)
    /\ peg_deposits' = Some(<<deposit_infos, last_block_hash>>)
    /\ deposits' = <<>>
    /\ idx' = 0
    /\ last_total' = AMOUNT_ZERO
    /\ last_block_hash' = None
    /\ deposit_infos' = <<>>
    /\ statuses' = <<>>
    /\ net' = Some(Request("listspentwithdrawals", <<>>))
    /\ pc' = "spent_await"
    /\ UNCHANGED <<call, ret, last_outcome, bmm_vars, spent_withdrawals,
                   failed_withdrawals, chain_vars>>

\* Mutant: the spent list is not filtered by sidechain.
RECURSIVE PushSpent_NoFilter(_, _)
PushSpent_NoFilter(acc, spent) ==
    IF spent = <<>>
    THEN acc
    ELSE PushSpent_NoFilter(Append(acc, <<Head(spent).hash, "Confirmed">>),
                            Tail(spent))

\* `for spent in spent_withdrawals { if spent.nsidechain ==
\*  self.sidechain_number { statuses.push((spent.hash, Confirmed)) } }`
RECURSIVE PushSpent(_, _)
PushSpent(acc, spent) ==
    IF spent = <<>>
    THEN acc
    ELSE PushSpent(IF Head(spent).nsidechain = sidechain_number
                   THEN Append(acc, <<Head(spent).hash, "Confirmed">>)
                   ELSE acc,
                   Tail(spent))

\* `for failed in failed_withdrawals { statuses.push((failed.hash, Failed)) }`
RECURSIVE PushFailed(_, _)
PushFailed(acc, failed) ==
    IF failed = <<>>
    THEN acc
    ELSE PushFailed(Append(acc, <<Head(failed).hash, "Failed">>), Tail(failed))

\* The answer to listspentwithdrawals with the given body: an error ends the
\* call, a list is filtered into statuses and listfailedwithdrawals is
\* requested.
SpentAnswer(outcome, body) ==
    /\ pc = "spent_await"
    /\ last_outcome' = Some(outcome)
    /\ IF outcome.kind # "Ok"
       THEN /\ ret' = Some(Err(Jsonrpsee(outcome)))
            /\ net' = None
            /\ pc' = "done"
            /\ UNCHANGED wd_vars
       ELSE /\ spent_withdrawals' = body
            /\ statuses' = PushSpent(statuses, body)
            /\ net' = Some(Request("listfailedwithdrawals", <<>>))
            /\ pc' = "failed_await"
            /\ UNCHANGED <<ret, peg_deposits, failed_withdrawals>>
    /\ UNCHANGED <<call, bmm_vars, scan_vars, chain_vars>>

SpentFrom(bodies) ==
    /\ pc = "spent_await"
    /\ \E outcome \in RpcOutcomes :
        IF outcome.kind # "Ok"
        THEN SpentAnswer(outcome, <<>>)
        ELSE \E body \in bodies : SpentAnswer(outcome, body)

\* The endpoint answers with an error or with any spent list.
SpentResponse == SpentFrom(WithdrawalLists)

\* The answer to listfailedwithdrawals with the given body: an error ends the
\* call; a list is pushed onto statuses, get_withdrawal_bundle_statuses
\* returns and get_two_way_peg_data returns Ok(TwoWayPegData).
FailedAnswer(outcome, body) ==
    /\ pc = "failed_await"
    /\ last_outcome' = Some(outcome)
    /\ net' = None
    /\ pc' = "done"
    /\ IF outcome.kind # "Ok"
       THEN /\ ret' = Some(Err(Jsonrpsee(outcome)))
            /\ UNCHANGED wd_vars
       ELSE /\ failed_withdrawals' = body
            /\ statuses' = PushFailed(statuses, body)
            /\ ret' = Some(Ok(TwoWayPegData(Unwrap(peg_deposits)[1],
                                            Unwrap(peg_deposits)[2],
                                            PushFailed(statuses, body))))
            /\ UNCHANGED <<peg_deposits, spent_withdrawals>>
    /\ UNCHANGED <<call, bmm_vars, scan_vars, chain_vars>>

FailedFrom(bodies) ==
    /\ pc = "failed_await"
    /\ \E outcome \in RpcOutcomes :
        IF outcome.kind # "Ok"
        THEN FailedAnswer(outcome, <<>>)
        ELSE \E body \in bodies : FailedAnswer(outcome, body)

\* The endpoint answers with an error or with any failed list.
FailedResponse == FailedFrom(WithdrawalLists)

\* The state of the handle between calls.
ResetCall ==
    /\ pc' = "idle"
    /\ call' = NoCall
    /\ net' = None
    /\ ret' = None
    /\ last_outcome' = None
    /\ main_hash' = None
    /\ timer' = 0
    /\ successor' = None
    /\ verify_sent' = <<>>
    /\ polled_next' = {}
    /\ deposits' = <<>>
    /\ idx' = 0
    /\ last_total' = AMOUNT_ZERO
    /\ last_block_hash' = None
    /\ deposit_infos' = <<>>
    /\ peg_deposits' = None
    /\ spent_withdrawals' = <<>>
    /\ failed_withdrawals' = <<>>
    /\ statuses' = <<>>

\* The caller takes the result (or the task has panicked); the handle is
\* ready for the next call.
Return ==
    /\ pc \in {"done", "panicked"}
    /\ ResetCall
    /\ UNCHANGED chain_vars

\* ------------------------------------------------------------ environments
\* An endpoint with no withdrawal activity: both lists are empty.
QuietLists == {<<>>}
SpentQuiet == SpentFrom(QuietLists)
FailedQuiet == FailedFrom(QuietLists)

\* An endpoint with at most one deposit candidate.
ShortDepositLists == DepositListsUpTo(1)
ListDepositsShort == ListDepositsFrom(ShortDepositLists)

\* An endpoint whose deposit lists hold any candidates at any position,
\* well formed or not.
RawDepositLists == {Numbered(l) : l \in SeqUpTo(Candidates, MaxRawDeposits)}
ListDepositsRaw == ListDepositsFrom(RawDepositLists)

\* A mainchain: well-formed deposit candidates in block order (block i is
\* at height i).
Chains ==
    {Numbered(l) : l \in
        {m \in SeqUpTo(WellFormed, MaxDeposits) :
            \A i \in 1..(Len(m) - 1) : m[i][1] <= m[i + 1][1]}}

\* listsidechaindepositsbyblock answered from the chain: the candidates of
\* the blocks from `start` (or from the first block) through `end`.
DepositsByBlock(c, end, start) ==
    SelectSeq(c, LAMBDA d :
        /\ d.hashblock <= end
        /\ IsSome(start) => d.hashblock >= Unwrap(start))

ListDepositsChain ==
    /\ net # None
    /\ ListDepositsFrom({DepositsByBlock(chain, Unwrap(Unwrap(net).params[2]),
                                         Unwrap(net).params[3])})

\* One scan of the caller's log: its interval and what it returned.
Scan(end, start, deposits_, deposit_block_hash, returned) ==
    [end |-> end, start |-> start, deposits |-> deposits_,
     deposit_block_hash |-> deposit_block_hash, returned |-> returned]

\* The watermark the caller holds: the deposit_block_hash the last scan
\* returned, None before the first scan.
Watermark(log) ==
    IF log = <<>> THEN None ELSE log[Len(log)].deposit_block_hash

\* A caller that chains its scans: each call's start is the previous call's
\* deposit_block_hash, and end never moves back.
CallChained ==
    /\ Len(scans) < MaxScans
    /\ \E end \in Blocks :
         /\ scans # <<>> => end >= scans[Len(scans)].end
         /\ EnterGetTwoWayPegData(end, Watermark(scans))
         /\ scans' = Append(scans, Scan(end, Watermark(scans), <<>>, None, FALSE))
    /\ UNCHANGED chain

\* The chaining caller takes the result: a TwoWayPegData is logged, a
\* failed call is forgotten (it is made again).
ReturnChained ==
    /\ pc \in {"done", "panicked"}
    /\ ResetCall
    /\ LET n == Len(scans)
           r == Unwrap(ret)
       IN  scans' =
             IF pc = "done" /\ r.tag = "Ok"
             THEN [scans EXCEPT ![n] =
                     Scan(scans[n].end, scans[n].start, r.val.deposits,
                          r.val.deposit_block_hash, TRUE)]
             ELSE SubSeq(scans, 1, n - 1)
    /\ UNCHANGED chain

\* --------------------------------------------------------- specifications
\* Every operation, any endpoint answers.
Next ==
    \/ CallVerifyBmm
    \/ VerifyBmmResponse
    \/ CallGetBlockCommitments
    \/ BlockCommitmentsResponse
    \/ CallVerifyBmmNextBlock
    \/ MineBlock
    \/ GetBlockResponse
    \/ Tick
    \/ SleepDone
    \/ NextBlockVerifyResponse
    \/ CallGetTwoWayPegData
    \/ ListDepositsResponse
    \/ DepositScanStep
    \/ DepositsDone
    \/ SpentResponse
    \/ FailedResponse
    \/ Return

Spec == Init /\ [][Next]_vars

\* The BMM operations.
NextBmm ==
    \/ CallVerifyBmm
    \/ VerifyBmmResponse
    \/ CallGetBlockCommitments
    \/ BlockCommitmentsResponse
    \/ CallVerifyBmmNextBlock
    \/ MineBlock
    \/ GetBlockResponse
    \/ Tick
    \/ SleepDone
    \/ NextBlockVerifyResponse
    \/ Return

SpecBmm == Init /\ [][NextBmm]_vars

\* The BMM operations where every request is answered, every sleep ends and
\* the mainchain goes on mining.
SpecBmmFair ==
    /\ SpecBmm
    /\ WF_vars(VerifyBmmResponse)
    /\ WF_vars(BlockCommitmentsResponse)
    /\ WF_vars(GetBlockResponse)
    /\ WF_vars(NextBlockVerifyResponse)
    /\ WF_vars(Tick)
    /\ WF_vars(SleepDone)
    /\ WF_vars(MineBlock)

\* get_two_way_peg_data over any deposit list, no withdrawal activity.
NextScan ==
    \/ CallGetTwoWayPegData
    \/ ListDepositsResponse
    \/ DepositScanStep
    \/ DepositsDone
    \/ SpentQuiet
    \/ FailedQuiet
    \/ Return

SpecScan == Init /\ [][NextScan]_vars

\* get_two_way_peg_data over any withdrawal lists, short deposit lists.
NextWithdrawals ==
    \/ CallGetTwoWayPegData
    \/ ListDepositsShort
    \/ DepositScanStep
    \/ DepositsDone
    \/ SpentResponse
    \/ FailedResponse
    \/ Return

SpecWithdrawals == Init /\ [][NextWithdrawals]_vars

\* get_two_way_peg_data over short lists of any candidates, no withdrawal
\* activity.
NextRaw ==
    \/ CallGetTwoWayPegData
    \/ ListDepositsRaw
    \/ DepositScanStep
    \/ DepositsDone
    \/ SpentQuiet
    \/ FailedQuiet
    \/ Return

SpecRaw == Init /\ [][NextRaw]_vars

\* Chained scans of one mainchain.
InitChain ==
    /\ pc = "idle"
    /\ call = NoCall
    /\ net = None
    /\ ret = None
    /\ main_hash = None
    /\ timer = 0
    /\ successor = None
    /\ verify_sent = <<>>
    /\ polled_next = {}
    /\ last_outcome = None
    /\ deposits = <<>>
    /\ idx = 0
    /\ last_total = AMOUNT_ZERO
    /\ last_block_hash = None
    /\ deposit_infos = <<>>
    /\ peg_deposits = None
    /\ spent_withdrawals = <<>>
    /\ failed_withdrawals = <<>>
    /\ statuses = <<>>
    /\ chain \in Chains
    /\ scans = <<>>

NextChain ==
    \/ CallChained
    \/ ListDepositsChain
    \/ DepositScanStep
    \/ DepositsDone
    \/ SpentQuiet
    \/ FailedQuiet
    \/ ReturnChained

SpecChain == InitChain /\ [][NextChain]_vars

\* ------------------------------------------------------------------ claims
\* What the running call returned.
Returned == pc = "done" /\ IsSome(ret)
ReturnedOk == Returned /\ Unwrap(ret).tag = "Ok"
ReturnedErr == Returned /\ Unwrap(ret).tag = "Err"
ReturnedJsonrpsee == ReturnedErr /\ Unwrap(ret).val.variant = "Jsonrpsee"

\* The verifybmm outcome is the exact sentinel: an application error with
\* code -1 and message "h* not found in block".
IsBmmSentinel(o) ==
    o.kind = "Call" /\ o.code = -1 /\ o.message = "h* not found in block"

VerifyBmmReturned == call.op = "verify_bmm" /\ Returned

\* C1: verify_bmm returns Ok(false) when verifybmm fails with the exact
\* sentinel (Call error, code -1, message "h* not found in block"), and
\* Ok(true) when verifybmm succeeds.
C1_SentinelIsFalse ==
    VerifyBmmReturned =>
        LET o == Unwrap(last_outcome) IN
        /\ IsBmmSentinel(o) => ReturnedOk /\ Unwrap(ret).val = FALSE
        /\ o.kind = "Ok" => ReturnedOk /\ Unwrap(ret).val = TRUE

C1_Witness ==
    /\ VerifyBmmReturned
    /\ IsBmmSentinel(Unwrap(last_outcome))
    /\ ReturnedOk
    /\ Unwrap(ret).val = FALSE

\* C2: for every verifybmm outcome other than success and the exact
\* sentinel (a transport failure, the sentinel message with another code,
\* code -1 with another message), verify_bmm returns Err(Error::Jsonrpsee)
\* carrying that error, never Ok.
C2_OtherErrorsPropagate ==
    VerifyBmmReturned =>
        LET o == Unwrap(last_outcome) IN
        (o.kind # "Ok" /\ ~IsBmmSentinel(o)) =>
            ReturnedJsonrpsee /\ Unwrap(ret).val.source = o

C2_Witness ==
    /\ VerifyBmmReturned
    /\ Unwrap(last_outcome).kind = "Call"
    /\ Unwrap(last_outcome).message = "h* not found in block"
    /\ Unwrap(last_outcome).code # -1
    /\ ReturnedJsonrpsee

NextBlockReturned == call.op = "verify_bmm_next_block" /\ Returned

\* A poll of the running call has reported a successor.
SuccessorPolled == \E n \in polled_next : IsSome(n)

\* C7 as stated: verify_bmm_next_block never returns before a getblock
\* response has carried a non-empty nextblockhash.
C7_NoReturnBeforeSuccessor ==
    NextBlockReturned => SuccessorPolled

\* C7 as amended: verify_bmm_next_block returns before a getblock response
\* has carried a nextblockhash only when a getblock poll failed, and then it
\* returns that poll's error with no verifybmm request made; an Ok return,
\* and every verifybmm request, come after such a response.
C7_EarlyReturnIsPollError ==
    /\ (NextBlockReturned /\ ~SuccessorPolled) =>
          /\ ReturnedJsonrpsee
          /\ Unwrap(ret).val.source = Unwrap(last_outcome)
          /\ verify_sent = <<>>
    /\ (call.op = "verify_bmm_next_block" /\ pc = "next_block_verify") =>
          SuccessorPolled

C7_Witness ==
    /\ NextBlockReturned
    /\ ReturnedOk
    /\ None \in polled_next
    /\ SuccessorPolled

\* C9: verify_bmm_next_block requests verifybmm at most once, only for a
\* hash a poll reported as nextblockhash, never for prev_main_hash; when it
\* returns Ok((verified, hash)), verifybmm was requested exactly once, hash
\* is that reported successor and verified is verify_bmm's result on it
\* (true on success, false on the sentinel).
C9_VerifiesSuccessorOnce ==
    call.op = "verify_bmm_next_block" =>
        /\ Len(verify_sent) <= 1
        /\ \A i \in 1..Len(verify_sent) :
              /\ Some(verify_sent[i]) \in polled_next
              /\ verify_sent[i] # call.prev_main_hash
        /\ ReturnedOk =>
              /\ Len(verify_sent) = 1
              /\ Unwrap(ret).val[2] = verify_sent[1]
              /\ Some(Unwrap(ret).val[2]) \in polled_next
              /\ Unwrap(ret).val[1] = (Unwrap(last_outcome).kind = "Ok")
              /\ Unwrap(ret).val[1] = FALSE => IsBmmSentinel(Unwrap(last_outcome))

C9_Witness ==
    /\ NextBlockReturned
    /\ ReturnedOk
    /\ Unwrap(ret).val[1] = FALSE
    /\ Unwrap(ret).val[2] # call.prev_main_hash
    /\ verify_sent = <<Unwrap(ret).val[2]>>

\* C8: under fair scheduling (requests are answered, sleeps end, the
\* mainchain mines a successor) every call of verify_bmm_next_block
\* returns, whatever poll_interval is, zero included; until then a sleep is
\* only ever followed by another poll (no timeout, no retry limit), and a
\* poll without a successor is only ever followed by a sleep.
C8_PollsUntilSuccessor ==
    /\ (call.op = "verify_bmm_next_block") ~> (pc = "done")
    /\ [](pc = "next_block_sleep" => <>(pc = "next_block_getblock"))
    /\ [][pc = "next_block_sleep" =>
            pc' \in {"next_block_sleep", "next_block_getblock"}]_vars
    /\ [][(pc = "next_block_getblock" /\ pc' # "next_block_getblock"
             /\ last_outcome' # None /\ Unwrap(last_outcome').kind = "Ok"
             /\ successor = None)
            => pc' = "next_block_sleep" /\ timer' = call.poll_interval]_vars

C8_Witness ==
    /\ NextBlockReturned
    /\ ReturnedOk
    /\ call.poll_interval = 0
    /\ None \in polled_next

\* The burn-output value of a well-formed candidate: the cumulative total
\* burned to the sidechain as of its transaction.
Total(d) == d.txhex.output[d.nburnindex + 1]

RECURSIVE SumValues(_)
SumValues(infos) ==
    IF infos = <<>> THEN 0 ELSE Head(infos).value + SumValues(Tail(infos))

\* The for loop of get_deposit_outputs has read the whole list.
ScanComplete == pc = "deposits_scan" /\ idx > Len(deposits)

StrictlyIncreasing(ds) ==
    \A i \in 1..Len(ds), j \in 1..Len(ds) : i < j => Total(ds[i]) < Total(ds[j])

\* C3: when the scan has no start bound and the endpoint's candidates have
\* strictly increasing burn totals, the values of the emitted DepositInfo
\* records sum to the last candidate's total (final_total - 0).
C3_ValuesSumToFinalTotal ==
    (ScanComplete /\ call.start = None /\ StrictlyIncreasing(deposits)) =>
        SumValues(deposit_infos) =
            (IF deposits = <<>> THEN 0 ELSE Total(deposits[Len(deposits)])) - 0

C3_Witness ==
    /\ ScanComplete
    /\ call.start = None
    /\ Len(deposits) = 3
    /\ StrictlyIncreasing(deposits)
    /\ Total(deposits[1]) > 0
    /\ Len(deposit_infos) = 3
    /\ SumValues(deposit_infos) = Total(deposits[3])

\* The loop is about to read a candidate and reads it without failing.
ReadsCandidate == pc = "deposits_scan" /\ idx <= Len(deposits) /\ idx' = idx + 1

\* C5: with a start bound, reading a candidate of the start block emits no
\* DepositInfo, whatever its total and position in the list: it sets
\* last_total to the candidate's burn-output value and leaves
\* last_block_hash as it is.
C5_StartBlockNeverEmits ==
    [][(ReadsCandidate /\ IsSome(call.start)
          /\ deposits[idx].hashblock = Unwrap(call.start))
        => /\ deposit_infos' = deposit_infos
           /\ last_block_hash' = last_block_hash
           /\ last_total' = Total(deposits[idx])]_vars

\* A start-block candidate in the middle of the list, with a total above
\* last_total, has been skipped.
C5_Witness ==
    /\ pc = "deposits_scan"
    /\ idx = 3
    /\ IsSome(call.start)
    /\ deposits[2].hashblock = Unwrap(call.start)
    /\ deposits[1].hashblock # Unwrap(call.start)
    /\ Total(deposits[2]) > Total(deposits[1])
    /\ Len(deposit_infos) = 1
    /\ last_total = Total(deposits[2])
    /\ last_block_hash = Some(deposits[1].hashblock)

\* The candidate being read is outside the start block.
NotInStartBlock ==
    IsSome(call.start) => deposits[idx].hashblock # Unwrap(call.start)

\* C6: reading a candidate (outside the start block) whose total is below
\* last_total emits no DepositInfo, sets last_total to that total and
\* leaves last_block_hash as it is; a candidate that is emitted gets the
\* value total - last_total, so the candidate after a backward one is
\* valued against the lowered last_total.
C6_BackwardTotalSkipped ==
    [][(ReadsCandidate /\ NotInStartBlock) =>
         IF Total(deposits[idx]) < last_total
         THEN /\ deposit_infos' = deposit_infos
              /\ last_total' = Total(deposits[idx])
              /\ last_block_hash' = last_block_hash
         ELSE /\ Len(deposit_infos') = Len(deposit_infos) + 1
              /\ deposit_infos'[Len(deposit_infos')].value =
                    Total(deposits[idx]) - last_total]_vars

\* A backward candidate was skipped and the next one valued against it.
C6_Witness ==
    /\ pc = "deposits_scan"
    /\ idx = 4
    /\ call.start = None
    /\ Total(deposits[2]) < Total(deposits[1])
    /\ Total(deposits[3]) > Total(deposits[1])
    /\ Len(deposit_infos) = 2
    /\ deposit_infos[2].value = Total(deposits[3]) - Total(deposits[2])
    /\ deposit_infos[2].block_hash = deposits[3].hashblock
    /\ last_block_hash = Some(deposits[3].hashblock)

\* The statuses the aggregation is to return for the two lists: the spent
\* entries of this sidechain as Confirmed, then the failed entries as Failed.
ExpectedStatuses(spent, failed) ==
    LET mine == SelectSeq(spent, LAMBDA w : w.nsidechain = 1)
    IN  [i \in 1..Len(mine) |-> <<mine[i].hash, "Confirmed">>]
            \o [i \in 1..Len(failed) |-> <<failed[i].hash, "Failed">>]

PegDataReturned == call.op = "get_two_way_peg_data" /\ ReturnedOk

\* C10: the bundle_statuses returned are the spent entries whose sidechain
\* id is the configured one, as (txid, Confirmed) in spent-list order,
\* followed by every failed entry as (txid, Failed) in failed-list order,
\* with no deduplication.
C10_StatusesAreSpentThenFailed ==
    PegDataReturned =>
        Unwrap(ret).val.bundle_statuses =
            ExpectedStatuses(spent_withdrawals, failed_withdrawals)

\* The example: spent [(A,1),(B,2)], failed [(C,1)] for sidechain 1.
C10_Witness ==
    /\ PegDataReturned
    /\ spent_withdrawals = <<Withdrawal(1, "A"), Withdrawal(2, "B")>>
    /\ failed_withdrawals = <<Withdrawal(1, "C")>>
    /\ Unwrap(ret).val.bundle_statuses = <<<<"A", "Confirmed">>, <<"C", "Failed">>>>

\* The candidate a DepositInfo was made from.
Origin(info) ==
    [block_hash |-> info.block_hash, tx_index |-> info.tx_index,
     outpoint |-> info.outpoint]

\* The chained call has returned Ok and a scan was logged before it.
SecondScanReturned ==
    /\ PegDataReturned
    /\ Len(scans) >= 2
    /\ call.start = scans[Len(scans) - 1].deposit_block_hash

\* C4: when a call's start is the deposit_block_hash the previous call
\* returned, no deposit the previous call emitted is emitted again.
C4_WatermarkIdempotence ==
    SecondScanReturned =>
        LET before == scans[Len(scans) - 1].deposits
            now == Unwrap(ret).val.deposits
        IN  \A i \in 1..Len(before), j \in 1..Len(now) :
                Origin(before[i]) # Origin(now[j])

\* Two deposits in the watermark block were emitted by the first call; the
\* second call, started at the watermark, emits only the later one.
C4_Witness ==
    /\ SecondScanReturned
    /\ IsSome(call.start)
    /\ Len(scans[Len(scans) - 1].deposits) = 2
    /\ scans[Len(scans) - 1].deposits[1].block_hash = Unwrap(call.start)
    /\ scans[Len(scans) - 1].deposits[2].block_hash = Unwrap(call.start)
    /\ Len(Unwrap(ret).val.deposits) = 1

\* The withdrawals of a list that an entry (txid, status) can stand for.
SourcesOf(entry, spent, failed) ==
    LET list == IF entry[2] = "Confirmed" THEN spent ELSE failed
    IN  {i \in 1..Len(list) : list[i].hash = entry[1]}

\* C11: every entry of the returned bundle_statuses, Confirmed (from the
\* spent list) or Failed (from the failed list), stands for a withdrawal
\* that list reports with the configured sidechain id.
C11_StatusesOfOneSidechain ==
    PegDataReturned =>
        LET out == Unwrap(ret).val.bundle_statuses IN
        \A k \in 1..Len(out) :
            LET list == IF out[k][2] = "Confirmed"
                        THEN spent_withdrawals ELSE failed_withdrawals
            IN  \E i \in SourcesOf(out[k], spent_withdrawals, failed_withdrawals) :
                    list[i].nsidechain = 1

\* The block of the last DepositInfo of a list, None for the empty list.
LastEmittedBlock(infos) ==
    IF infos = <<>> THEN <<>> ELSE <<infos[Len(infos)].block_hash>>

\* C12: the deposit_block_hash get_two_way_peg_data returns is the block
\* hash of the last DepositInfo it returns, and is None exactly when it
\* returns none; all along the scan last_block_hash is the block of the
\* last DepositInfo emitted so far, so a skipped candidate never sets it.
C12_WatermarkIsLastEmitted ==
    /\ PegDataReturned =>
          /\ Unwrap(ret).val.deposit_block_hash =
                LastEmittedBlock(Unwrap(ret).val.deposits)
          /\ (Unwrap(ret).val.deposit_block_hash = <<>>)
                <=> (Unwrap(ret).val.deposits = <<>>)
    /\ pc = "deposits_scan" => last_block_hash = LastEmittedBlock(deposit_infos)
    /\ pc \in {"spent_await", "failed_await"} =>
          Unwrap(peg_deposits)[2] = LastEmittedBlock(Unwrap(peg_deposits)[1])

\* Two deposits of different blocks were returned, and the watermark is the
\* second one's block.
C12_Witness ==
    /\ PegDataReturned
    /\ Len(Unwrap(ret).val.deposits) = 2
    /\ Unwrap(ret).val.deposits[1].block_hash # Unwrap(ret).val.deposits[2].block_hash
    /\ Unwrap(ret).val.deposit_block_hash = <<Unwrap(ret).val.deposits[2].block_hash>>

\* The candidates of the example: no start bound, a positive total, the
\* same total again, a larger total.
EqualTotalExample ==
    /\ call.start = <<>>
    /\ Len(deposits) = 3
    /\ Total(deposits[1]) > 0
    /\ Total(deposits[2]) = Total(deposits[1])
    /\ Total(deposits[3]) > Total(deposits[2])

\* C13: reading a candidate outside the start block whose total equals
\* last_total emits a DepositInfo of value 0 for it and sets
\* last_block_hash to its block; so the example's candidates
\* [(b1,t),(b2,t),(b3,u)], 0 < t < u, no start bound, yield the values
\* [t, 0, u - t] at b1, b2, b3 and the watermark b3.
C13_EqualTotalEmitsZero ==
    /\ [][(ReadsCandidate /\ NotInStartBlock /\ Total(deposits[idx]) = last_total)
            => /\ Len(deposit_infos') = Len(deposit_infos) + 1
               /\ SubSeq(deposit_infos', 1, Len(deposit_infos)) = deposit_infos
               /\ deposit_infos'[Len(deposit_infos')].value = 0
               /\ deposit_infos'[Len(deposit_infos')].block_hash =
                     deposits[idx].hashblock
               /\ last_block_hash' = <<deposits[idx].hashblock>>]_vars
    /\ []((ScanComplete /\ EqualTotalExample) =>
            /\ Len(deposit_infos) = 3
            /\ [i \in 1..3 |-> deposit_infos[i].value] =
                  <<Total(deposits[1]), 0, Total(deposits[3]) - Total(deposits[1])>>
            /\ [i \in 1..3 |-> deposit_infos[i].block_hash] =
                  [i \in 1..3 |-> deposits[i].hashblock]
            /\ last_block_hash = <<deposits[3].hashblock>>)

\* The example with the second candidate in the block after the first's.
C13_Witness ==
    /\ ScanComplete
    /\ EqualTotalExample
    /\ deposits[1].hashblock = 1
    /\ deposits[2].hashblock = 2
    /\ Len(deposit_infos) = 3
    /\ deposit_infos[2].value = 0
    /\ deposit_infos[2].block_hash = 2
    /\ deposit_infos[3].value = Total(deposits[3]) - Total(deposits[1])
    /\ last_block_hash = <<deposits[3].hashblock>>

\* The candidate's txhex is no hex string, or hex of bytes that are no
\* transaction.
Corrupt(d) == d.txhex.enc \in {"badhex", "badtx"}
HasCorrupt(ds) == \E i \in 1..Len(ds) : Corrupt(ds[i])

\* The call ends with a decode error.
EndsInDecodeError(pc_, ret_) ==
    /\ pc_ = "done"
    /\ ret_ # <<>>
    /\ ret_[1].tag = "Err"
    /\ ret_[1].val.variant \in {"Hex", "BitcoinConsensusEncode"}

\* C14: when the endpoint's deposit list holds a candidate with malformed
\* hex or undecodable bytes (in the start block or not), the scan of that
\* list is only ever left by get_two_way_peg_data returning a decode
\* error: it returns no deposits, watermark or statuses.
C14_CorruptCandidateFailsCall ==
    [][(pc = "deposits_scan" /\ HasCorrupt(deposits) /\ pc' # "deposits_scan")
        => EndsInDecodeError(pc', ret')]_vars

\* C19: get_two_way_peg_data never aborts, whatever list the endpoint
\* returns (a burn index that is no output index of its transaction
\* included): it ends in Ok or in Err; and no value total - last_total is
\* computed below zero.
C19_ScanNeverAborts ==
    /\ pc # "panicked"
    /\ \A i \in 1..Len(deposit_infos) : deposit_infos[i].value >= 0

BlockCommitmentsReturned == call.op = "get_block_commitments" /\ Returned

\* The getblockcommitments outcome is the exact "block not found" signal.
IsBlockNotFound(o) ==
    o.kind = "Call" /\ o.code = -1 /\ o.message = "Block not found"

\* C15: get_block_commitments returns Ok(Err(BlockNotFoundError(main_hash)))
\* with the requested hash when getblockcommitments fails with a Call error
\* of code -1 and message "Block not found", Ok(Ok(commitments)) with the
\* endpoint's commitments on success, and Err(Error::Jsonrpsee) carrying
\* the error for every other error.
C15_BlockNotFoundIsTyped ==
    BlockCommitmentsReturned =>
        LET o == Unwrap(last_outcome)
            r == Unwrap(ret)
        IN  /\ IsBlockNotFound(o) =>
                  /\ r.tag = "Ok" /\ r.val.tag = "Err"
                  /\ r.val.val = [variant |-> "BlockNotFound", hash |-> call.main_hash]
            /\ o.kind = "Ok" =>
                  r.tag = "Ok" /\ r.val.tag = "Ok" /\ r.val.val = o.body
            /\ (o.kind # "Ok" /\ ~IsBlockNotFound(o)) =>
                  ReturnedJsonrpsee /\ r.val.source = o

C15_Witness ==
    /\ BlockCommitmentsReturned
    /\ IsBlockNotFound(Unwrap(last_outcome))
    /\ Unwrap(ret) = Ok(Err([variant |-> "BlockNotFound", hash |-> call.main_hash]))

\* A getblock poll of verify_bmm_next_block is answered in this step.
PollAnswered == pc = "next_block_getblock" /\ pc' # "next_block_getblock"

\* C16: a getblock poll that fails (transport error or any application
\* error) ends verify_bmm_next_block at once with that error: no request is
\* in flight after it, no sleep is started and no verifybmm is requested;
\* and a poll is made again only after a sleep that follows a successful
\* response without nextblockhash.
C16_PollFailureNotRetried ==
    /\ [][(PollAnswered /\ Unwrap(last_outcome').kind # "Ok") =>
            /\ pc' = "done"
            /\ ret' = <<[tag |-> "Err",
                         val |-> [variant |-> "Jsonrpsee",
                                  source |-> Unwrap(last_outcome')]]>>
            /\ net' = <<>>
            /\ verify_sent' = verify_sent]_vars
    /\ [][(pc' = "next_block_getblock" /\ pc \notin {"idle", "next_block_getblock"}) =>
            /\ pc = "next_block_sleep"
            /\ Unwrap(last_outcome).kind = "Ok"
            /\ <<>> \in polled_next
            /\ ~SuccessorPolled]_vars
    /\ [][(call.op = "verify_bmm_next_block" /\ pc = "done") => pc' = "idle"]_vars

\* A poll without successor, a sleep, then a poll the endpoint answered
\* with an application error: the call returned that error.
C16_Witness ==
    /\ NextBlockReturned
    /\ ReturnedJsonrpsee
    /\ <<>> \in polled_next
    /\ Unwrap(last_outcome).kind = "Call"
    /\ Unwrap(last_outcome).code = -5
    /\ Unwrap(last_outcome).message = "Block not found"
    /\ verify_sent = <<>>

\* The methods of the requests in flight.
InFlight == IF net = <<>> THEN {} ELSE {Unwrap(net).method}

WithdrawalRequests == {"listspentwithdrawals", "listfailedwithdrawals"}

\* get_two_way_peg_data waits for the deposit list.
AwaitsDepositList == call.op = "get_two_way_peg_data" /\ pc = "deposits_await"

\* C17 as stated: get_two_way_peg_data fans out: while it waits for the
\* deposit list, the withdrawal-list request is in flight too.
C17_FanOut ==
    AwaitsDepositList => "listspentwithdrawals" \in InFlight

\* C17 as amended: get_two_way_peg_data runs its sub-operations in
\* sequence: a withdrawal-list request is in flight only after the deposit
\* scan has returned Ok, never while the deposit list is awaited or
\* scanned, and a deposit scan that fails or aborts ends the call with no
\* withdrawal-list request made.
C17_SubOperationsInSequence ==
    /\ [](call.op = "get_two_way_peg_data" =>
            /\ (InFlight \cap WithdrawalRequests # {}) =>
                  /\ peg_deposits # <<>>
                  /\ pc \in {"spent_await", "failed_await"}
            /\ pc \in {"deposits_await", "deposits_scan"} =>
                  /\ InFlight \cap WithdrawalRequests = {}
                  /\ peg_deposits = <<>>)
    /\ [][(pc \in {"deposits_await", "deposits_scan"} /\ pc' \in {"done", "panicked"})
            => /\ net' = <<>>
               /\ peg_deposits' = <<>>
               /\ pc' = "done" => (ret' # <<>> /\ ret'[1].tag = "Err")]_vars
    /\ [][(InFlight \cap WithdrawalRequests = {} /\ net' # <<>>
             /\ net'[1].method \in WithdrawalRequests)
            => /\ pc = "deposits_scan" /\ idx > Len(deposits)
               /\ net'[1].method = "listspentwithdrawals"
               /\ peg_deposits' = <<(<<deposit_infos, last_block_hash>>)>>]_vars

\* The spent list is requested with the deposit scan's result in hand.
C17_Witness ==
    /\ call.op = "get_two_way_peg_data"
    /\ pc = "spent_await"
    /\ InFlight = {"listspentwithdrawals"}
    /\ peg_deposits # <<>>
    /\ Len(Unwrap(peg_deposits)[1]) = 1

RECURSIVE SumOverScans(_)
SumOverScans(log) ==
    IF log = <<>>
    THEN 0
    ELSE SumValues(log[Len(log)].deposits) + SumOverScans(SubSeq(log, 1, Len(log) - 1))

\* The cumulative total burned on the chain through block `end`.
BurnedThrough(c, end) ==
    LET ds == SelectSeq(c, LAMBDA d : d.hashblock <= end)
    IN  IF ds = <<>> THEN 0 ELSE Total(ds[Len(ds)])

\* C18: on a chain of strictly increasing cumulative totals, when each call
\* starts at the deposit_block_hash the call before it returned (None for
\* the first call and after a call that accepted no deposit), the deposit
\* values of all the calls made so far sum to the cumulative total burned
\* through the last call's end.
C18_ChainedScansConserve ==
    (pc = "idle" /\ scans # <<>> /\ StrictlyIncreasing(chain)) =>
        SumOverScans(scans) = BurnedThrough(chain, scans[Len(scans)].end)
====
